---- MODULE Spec2Model ----
(***************************************************************************)
(* Model of backend/app.py: the VisemeMapper catalog (VISEME_MAP,          *)
(* viseme_count), phoneme_to_viseme, generate_viseme_sequence,             *)
(* _word_to_visemes and the two introspection handlers.                    *)
(*                                                                         *)
(* Strings are sequences of one-character strings.  Seconds are exact      *)
(* rationals <<numerator, denominator>> in lowest terms with a positive    *)
(* denominator: the binary rounding of Python's float is abstracted away,  *)
(* a float division by zero is kept (it raises ZeroDivisionError).         *)
(***************************************************************************)
EXTENDS Integers, Sequences, FiniteSets, TLC

\* ------------------------------------------------------------- bounds
MaxLen == 4
MaxLabelLen == 3
MaxDuration == 2

\* ------------------------------------------------------------- inputs
TextChars == {"a", "b", "h", "i", "H", " ", "!"}
LabelChars == {"s", "h", "a", "S", "H", " "}

RECURSIVE StringsUpTo(_, _)
StringsUpTo(chars, n) ==
    IF n = 0 THEN {<<>>}
    ELSE LET shorter == StringsUpTo(chars, n - 1)
         IN  shorter \cup {Append(s, c) : s \in shorter, c \in chars}

Texts == StringsUpTo(TextChars, MaxLen)
Labels == StringsUpTo(LabelChars, MaxLabelLen)

\* ------------------------------------------------------- exact seconds
RECURSIVE GCD(_, _)
GCD(a, b) == IF b = 0 THEN a ELSE GCD(b, a % b)

Abs(n) == IF n < 0 THEN -n ELSE n

\* n/d in lowest terms, d > 0
Norm(n, d) == LET g == GCD(Abs(n), d) IN <<n \div g, d \div g>>

Zero == Norm(0, 1)

Durations == {Norm(n, 1) : n \in -1..MaxDuration}

\* float / int: raises ZeroDivisionError on a zero divisor
TrueDiv(x, n) ==
    [raised |-> n = 0,
     value  |-> IF n = 0 THEN Zero ELSE Norm(x[1], x[2] * n)]

\* float + float
FloatAdd(x, y) == Norm(x[1] * y[2] + y[1] * x[2], x[2] * y[2])

max(a, b) == IF a >= b THEN a ELSE b

\* --------------------------------------------------------- str methods
IsSpace(c) == c = " "

\* str.lower(), character by character
LowerChar(c) ==
    CASE c = "H" -> "h"
      [] c = "S" -> "s"
      [] OTHER   -> c

lower(s) == [k \in 1..Len(s) |-> LowerChar(s[k])]

\* str.strip(): drop leading and trailing whitespace
RECURSIVE lstrip(_)
lstrip(s) == IF s # <<>> /\ IsSpace(Head(s)) THEN lstrip(Tail(s)) ELSE s

RECURSIVE rstrip(_)
rstrip(s) ==
    IF s # <<>> /\ IsSpace(s[Len(s)]) THEN rstrip(SubSeq(s, 1, Len(s) - 1)) ELSE s

strip(s) == rstrip(lstrip(s))

\* str.split(sep): every separator delimits, empty strings are kept, and the
\* empty string splits into one empty word
RECURSIVE split_on_sep(_, _, _)
split_on_sep(s, k, cur) ==
    IF k > Len(s) THEN <<cur>>
    ELSE IF IsSpace(s[k]) THEN <<cur>> \o split_on_sep(s, k + 1, <<>>)
    ELSE split_on_sep(s, k + 1, Append(cur, s[k]))

split_keep_empty(s) == split_on_sep(s, 1, <<>>)

\* str.split() with no separator: runs of whitespace delimit, empty strings
\* are dropped
split(s) == SelectSeq(split_on_sep(s, 1, <<>>), LAMBDA w : w # <<>>)

\* ------------------------------------------------------------- catalog
VisemeMapLiteral ==
    (<<"s", "i", "l">> :> 0) @@ (<<"s", "p">> :> 0) @@ (<<>> :> 0) @@
    (<<"p">> :> 1) @@ (<<"b">> :> 1) @@ (<<"m">> :> 1) @@
    (<<"f">> :> 2) @@ (<<"v">> :> 2) @@
    (<<"t", "h">> :> 3) @@ (<<"d", "h">> :> 3) @@
    (<<"t">> :> 4) @@ (<<"d">> :> 4) @@ (<<"n">> :> 4) @@ (<<"l">> :> 4) @@
    (<<"s">> :> 4) @@ (<<"z">> :> 4) @@
    (<<"s", "h">> :> 5) @@ (<<"z", "h">> :> 5) @@ (<<"c", "h">> :> 5) @@
    (<<"j", "h">> :> 5) @@ (<<"r">> :> 5) @@
    (<<"k">> :> 6) @@ (<<"g">> :> 6) @@ (<<"n", "g">> :> 6) @@ (<<"y">> :> 6) @@
    (<<"w">> :> 6) @@
    (<<"h">> :> 7) @@
    (<<"a", "a">> :> 8) @@ (<<"a", "o">> :> 8) @@
    (<<"a", "e">> :> 9) @@ (<<"a", "h">> :> 9) @@
    (<<"e", "h">> :> 10) @@ (<<"e", "r">> :> 10) @@
    (<<"i", "h">> :> 11) @@ (<<"i", "y">> :> 11) @@
    (<<"o", "w">> :> 12) @@ (<<"o", "o">> :> 12) @@ (<<"u", "h">> :> 12) @@
    (<<"u", "w">> :> 12) @@
    (<<"a", "y">> :> 13) @@ (<<"e", "y">> :> 13) @@
    (<<"o", "y">> :> 14) @@ (<<"a", "w">> :> 14)

VisemeCountLiteral == 15

\* dict.get(key, default)
dict_get(d, key, default) == IF key \in DOMAIN d THEN d[key] ELSE default

\* dict.setdefault(key, default): the dict afterwards
dict_setdefault(d, key, default) ==
    IF key \in DOMAIN d THEN d ELSE d @@ (key :> default)

\* ------------------------------------------------ VisemeMapper methods
\* fault variant: the .lower() of line 60 dropped
phoneme_to_viseme_no_lower(viseme_map, phoneme) ==
    dict_get(viseme_map, strip(phoneme), 0)

phoneme_to_viseme(viseme_map, phoneme) ==
    dict_get(viseme_map, strip(lower(phoneme)), 0)

\* fault variant: a table value beyond viseme_count - 1
letter_to_viseme_out_of_range ==
    ("a" :> 8) @@ ("e" :> 10) @@ ("i" :> 11) @@ ("o" :> 12) @@ ("u" :> 12) @@
    ("p" :> 1) @@ ("b" :> 1) @@ ("m" :> 1) @@
    ("f" :> 2) @@ ("v" :> 2) @@
    ("t" :> 4) @@ ("d" :> 4) @@ ("n" :> 4) @@ ("l" :> 4) @@ ("s" :> 4) @@
    ("r" :> 5) @@ ("ch" :> 5) @@ ("sh" :> 5) @@
    ("k" :> 6) @@ ("g" :> 6) @@ ("w" :> 6) @@ ("y" :> 6) @@
    ("h" :> 15)

letter_to_viseme ==
    ("a" :> 8) @@ ("e" :> 10) @@ ("i" :> 11) @@ ("o" :> 12) @@ ("u" :> 12) @@
    ("p" :> 1) @@ ("b" :> 1) @@ ("m" :> 1) @@
    ("f" :> 2) @@ ("v" :> 2) @@
    ("t" :> 4) @@ ("d" :> 4) @@ ("n" :> 4) @@ ("l" :> 4) @@ ("s" :> 4) @@
    ("r" :> 5) @@ ("ch" :> 5) @@ ("sh" :> 5) @@
    ("k" :> 6) @@ ("g" :> 6) @@ ("w" :> 6) @@ ("y" :> 6) @@
    ("h" :> 7)

\* fault variant: the loop of _word_to_visemes with the else branch lost
RECURSIVE word_chars_known_only(_, _, _)
word_chars_known_only(word, k, visemes) ==
    IF k > Len(word) THEN visemes
    ELSE IF word[k] \in DOMAIN letter_to_viseme
         THEN word_chars_known_only(word, k + 1,
                                    Append(visemes, letter_to_viseme[word[k]]))
         ELSE word_chars_known_only(word, k + 1, visemes)

word_to_visemes_known_only(word) ==
    LET visemes == word_chars_known_only(word, 1, <<>>)
    IN  IF visemes # <<>> THEN visemes ELSE <<0>>

RECURSIVE word_chars(_, _, _)
word_chars(word, k, visemes) ==
    IF k > Len(word) THEN visemes
    ELSE IF word[k] \in DOMAIN letter_to_viseme
         THEN word_chars(word, k + 1, Append(visemes, letter_to_viseme[word[k]]))
         ELSE word_chars(word, k + 1, Append(visemes, 0))

word_to_visemes(word) ==
    LET visemes == word_chars(word, 1, <<>>)
    IN  IF visemes # <<>> THEN visemes ELSE <<0>>

\* fault variant: text.lower().split(' ') instead of split()
words_split_on_space(text) == split_keep_empty(lower(text))

words_of(text) == split(lower(text))

RECURSIVE TotalLen(_)
TotalLen(ws) == IF ws = <<>> THEN 0 ELSE Len(Head(ws)) + TotalLen(Tail(ws))

\* fault variant: the max(..., 1) guard of line 69 dropped
time_per_word_unguarded(audio_duration, words) ==
    TrueDiv(audio_duration, Len(words))

\* fault variant: the duration divided by the character count
time_per_word_by_chars(audio_duration, words) ==
    TrueDiv(audio_duration, max(TotalLen(words), 1))

time_per_word(audio_duration, words) ==
    TrueDiv(audio_duration, max(Len(words), 1))

\* fault variant: the division of line 77 dropped
viseme_duration_undivided(word_duration, viseme_sequence) ==
    TrueDiv(word_duration, 1)

viseme_duration_of(word_duration, viseme_sequence) ==
    TrueDiv(word_duration, max(Len(viseme_sequence), 1))

\* fault variant: line 85 dropped
advance_none(current_time, viseme_duration) == current_time

\* current_time += viseme_duration
advance(current_time, viseme_duration) == FloatAdd(current_time, viseme_duration)

\* for viseme_id in viseme_sequence: append an entry, advance current_time
RECURSIVE append_entries(_, _, _, _, _)
append_entries(viseme_sequence, k, viseme_duration, visemes, current_time) ==
    IF k > Len(viseme_sequence)
    THEN [visemes |-> visemes, current_time |-> current_time]
    ELSE append_entries(
             viseme_sequence, k + 1, viseme_duration,
             Append(visemes, [viseme_id   |-> viseme_sequence[k],
                              time_offset |-> current_time,
                              duration    |-> viseme_duration]),
             advance(current_time, viseme_duration))

\* for word in words
RECURSIVE word_loop(_, _, _, _, _)
word_loop(words, j, word_duration, visemes, current_time) ==
    IF j > Len(words) THEN [outcome |-> "returned", value |-> visemes]
    ELSE LET viseme_sequence == word_to_visemes(words[j])
             vd == viseme_duration_of(word_duration, viseme_sequence)
         IN  IF vd.raised
             THEN [outcome |-> "ZeroDivisionError", value |-> <<>>]
             ELSE LET after == append_entries(viseme_sequence, 1, vd.value,
                                              visemes, current_time)
                  IN  word_loop(words, j + 1, word_duration,
                                after.visemes, after.current_time)

generate_viseme_sequence(text, audio_duration) ==
    LET words == words_of(text)
        tpw == time_per_word(audio_duration, words)
    IN  IF tpw.raised
        THEN [outcome |-> "ZeroDivisionError", value |-> <<>>]
        ELSE word_loop(words, 1, tpw.value, <<>>, Zero)

\* --------------------------------------------------------------- state
\* Each call is one step.  The calls share nothing but the catalog, so the
\* catalog after concurrent callers is the catalog after some sequence of
\* these steps.
VARIABLES
    VISEME_MAP,      \* VisemeMapper.VISEME_MAP, the class-level dict
    viseme_count,    \* tts_service.viseme_mapper.viseme_count
    req_text,        \* the string argument of the calls
    req_duration,    \* the audio_duration argument of the calls
    op,              \* the operation that ran last, "none" at start
    ret              \* what it returned: [outcome, value]

vars == <<VISEME_MAP, viseme_count, req_text, req_duration, op, ret>>

Init ==
    /\ VISEME_MAP = VisemeMapLiteral
    /\ viseme_count = VisemeCountLiteral
    /\ \/ req_text \in Texts /\ req_duration \in Durations
       \/ req_text \in Labels /\ req_duration = Zero
    /\ op = "none"
    /\ ret = [outcome |-> "none", value |-> <<>>]

\* fault variant: phoneme_to_viseme with dict.get replaced by dict.setdefault
CallPhonemeToVisemeSetdefault ==
    /\ op' = "phoneme_to_viseme"
    /\ ret' = [outcome |-> "returned",
               value   |-> phoneme_to_viseme(VISEME_MAP, req_text)]
    /\ VISEME_MAP' = dict_setdefault(VISEME_MAP, strip(lower(req_text)), 0)
    /\ UNCHANGED <<viseme_count, req_text, req_duration>>

CallPhonemeToViseme ==
    /\ op' = "phoneme_to_viseme"
    /\ ret' = [outcome |-> "returned",
               value   |-> phoneme_to_viseme(VISEME_MAP, req_text)]
    /\ UNCHANGED <<VISEME_MAP, viseme_count, req_text, req_duration>>

CallGenerateVisemeSequence ==
    /\ op' = "generate_viseme_sequence"
    /\ ret' = generate_viseme_sequence(req_text, req_duration)
    /\ UNCHANGED <<VISEME_MAP, viseme_count, req_text, req_duration>>

CallWordToVisemes ==
    /\ op' = "word_to_visemes"
    /\ ret' = [outcome |-> "returned", value |-> word_to_visemes(req_text)]
    /\ UNCHANGED <<VISEME_MAP, viseme_count, req_text, req_duration>>

get_viseme_mapping ==
    /\ op' = "get_viseme_mapping"
    /\ ret' = [outcome |-> "returned",
               value   |-> [viseme_map   |-> VISEME_MAP,
                            viseme_count |-> viseme_count]]
    /\ UNCHANGED <<VISEME_MAP, viseme_count, req_text, req_duration>>

get_avatar_info ==
    /\ op' = "get_avatar_info"
    /\ ret' = [outcome |-> "returned",
               value   |-> [viseme_count |-> viseme_count]]
    /\ UNCHANGED <<VISEME_MAP, viseme_count, req_text, req_duration>>

Next ==
    \/ CallPhonemeToViseme
    \/ CallGenerateVisemeSequence
    \/ CallWordToVisemes
    \/ get_viseme_mapping
    \/ get_avatar_info

Spec == Init /\ [][Next]_vars

\* ------------------------------------------------- vocabulary of claims
IsGenerate == op = "generate_viseme_sequence"

NonNegative(x) == x[1] >= 0

Positive(x) == x[1] > 0

RECURSIVE SumDurations(_)
SumDurations(entries) ==
    IF entries = <<>> THEN Zero
    ELSE FloatAdd(Head(entries).duration, SumDurations(Tail(entries)))

\* a word starts at p: a non-whitespace character at the start of the text
\* or right after whitespace
IsWordStart(s, p) == ~IsSpace(s[p]) /\ (p = 1 \/ IsSpace(s[p - 1]))

WordCountOf(s) == Cardinality({q \in 1..Len(s) : IsWordStart(s, q)})

\* the 1-based number of the word the non-whitespace position p lies in
WordIndexAt(s, p) == Cardinality({q \in 1..p : IsWordStart(s, q)})

\* the positions of the word that position p lies in
WordPositions(s, p) ==
    {q \in 1..Len(s) : ~IsSpace(s[q]) /\ WordIndexAt(s, q) = WordIndexAt(s, p)}

\* the 1-based rank of position p among the non-whitespace positions
EntryIndexAt(s, p) == Cardinality({q \in 1..p : ~IsSpace(s[q])})

NonSpaceChars(s) == SelectSeq(s, LAMBDA c : ~IsSpace(c))

\* the part of s between its first and its last non-whitespace character
Trimmed(s) ==
    LET idx == {k \in 1..Len(s) : ~IsSpace(s[k])}
    IN  IF idx = {} THEN <<>>
        ELSE SubSeq(s, CHOOSE k \in idx : \A m \in idx : k <= m,
                       CHOOSE k \in idx : \A m \in idx : k >= m)

UpperChar(c) ==
    CASE c = "h" -> "H"
      [] c = "s" -> "S"
      [] OTHER   -> c

\* labels that differ from s in letter case or surrounding whitespace only
CaseAndSpaceVariants(s) ==
    LET up == [k \in 1..Len(s) |-> UpperChar(s[k])]
    IN  {s, up, lower(s), <<" ">> \o s, s \o <<" ">>, <<" ">> \o up \o <<" ">>,
         Trimmed(s)}

RatDivInt(x, n) == Norm(x[1], x[2] * n)

RatMulInt(x, n) == Norm(x[1] * n, x[2])

\* ---------------------------------------------------------------- C1
\* C1 as stated: for every text, empty or whitespace-only included, and
\* every audio_duration >= 0, the durations of the returned entries sum to
\* audio_duration.
CoverageAllTexts ==
    (IsGenerate /\ NonNegative(req_duration))
        => (ret.outcome = "returned" /\ SumDurations(ret.value) = req_duration)

\* C1 amended: for every text with at least one word and every
\* audio_duration >= 0 the durations of the returned entries sum to
\* audio_duration; for a text with no word they sum to 0.
CoverageWhenWords ==
    (IsGenerate /\ NonNegative(req_duration))
        => /\ ret.outcome = "returned"
           /\ SumDurations(ret.value) =
                  IF WordCountOf(req_text) >= 1 THEN req_duration ELSE Zero

CoverageWitness ==
    /\ IsGenerate
    /\ Positive(req_duration)
    /\ WordCountOf(req_text) >= 2
    /\ Len(ret.value) >= 3
    /\ SumDurations(ret.value) = req_duration

\* ---------------------------------------------------------------- C2
\* C2: in every returned sequence the first entry has time_offset 0, each
\* next entry starts where the previous one ends (word boundaries
\* included), and each time_offset is the sum of the preceding durations.
Contiguity ==
    IsGenerate =>
        /\ ret.outcome = "returned"
        /\ (ret.value # <<>> => ret.value[1].time_offset = Zero)
        /\ \A i \in 1..(Len(ret.value) - 1) :
               ret.value[i + 1].time_offset =
                   FloatAdd(ret.value[i].time_offset, ret.value[i].duration)
        /\ \A i \in 1..Len(ret.value) :
               ret.value[i].time_offset =
                   SumDurations(SubSeq(ret.value, 1, i - 1))

ContiguityWitness ==
    /\ IsGenerate
    /\ Positive(req_duration)
    /\ WordCountOf(req_text) >= 2
    /\ Len(ret.value) >= 3
    /\ Positive(ret.value[Len(ret.value)].time_offset)

\* ---------------------------------------------------------------- C3
\* C3: a call with audio_duration < 0 ends in an InvalidArgument error and
\* returns no entries.
NegativeDurationRejected ==
    (IsGenerate /\ ~NonNegative(req_duration))
        => (ret.outcome = "InvalidArgument" /\ ret.value = <<>>)

\* ---------------------------------------------------------------- C4
\* C4: every viseme_id of a returned sequence is in 0..viseme_count-1 with
\* viseme_count = 15, as is every value of the character table and every
\* id _word_to_visemes returns.
ValidIdentifiers ==
    /\ viseme_count = 15
    /\ \A c \in DOMAIN letter_to_viseme :
           letter_to_viseme[c] \in 0..(viseme_count - 1)
    /\ IsGenerate =>
           \A i \in 1..Len(ret.value) :
               ret.value[i].viseme_id \in 0..(viseme_count - 1)
    /\ op = "word_to_visemes" =>
           \A i \in 1..Len(ret.value) : ret.value[i] \in 0..(viseme_count - 1)

ValidIdentifiersWitness ==
    /\ IsGenerate
    /\ \E i \in 1..Len(ret.value) : ret.value[i].viseme_id = 11
    /\ \E i \in 1..Len(ret.value) : ret.value[i].viseme_id = 0

\* ---------------------------------------------------------------- C5
\* C5: a text with no word (empty or whitespace only) gives the empty
\* sequence for every audio_duration.
EmptyTextEmptySequence ==
    (IsGenerate /\ \A k \in 1..Len(req_text) : IsSpace(req_text[k]))
        => (ret.outcome = "returned" /\ ret.value = <<>>)

EmptyTextWitness ==
    /\ IsGenerate
    /\ req_text = <<>>
    /\ Positive(req_duration)
    /\ ret.value = <<>>

\* ---------------------------------------------------------------- C6
\* C6: for every text and every audio_duration >= 0 the call returns a
\* sequence; it never raises (no division has a zero divisor).
Totality ==
    (IsGenerate /\ NonNegative(req_duration)) => ret.outcome = "returned"

TotalityWitness ==
    /\ IsGenerate
    /\ req_duration = Zero
    /\ req_text = <<" ">>
    /\ ret.outcome = "returned"

\* ---------------------------------------------------------------- C7
\* C7: phoneme_to_viseme(label) is the VISEME_MAP value of the lower-cased,
\* trimmed label when that is a key and 0 otherwise, so labels that differ
\* in letter case or surrounding whitespace only get the same id ("SH" and
\* "sh" give 5).
PhonemeLookupNormalizes ==
    op = "phoneme_to_viseme" =>
        /\ ret.outcome = "returned"
        /\ ret.value =
               IF Trimmed(lower(req_text)) \in DOMAIN VisemeMapLiteral
               THEN VisemeMapLiteral[Trimmed(lower(req_text))]
               ELSE 0
        /\ \A l \in CaseAndSpaceVariants(req_text) :
               phoneme_to_viseme(VISEME_MAP, l) = ret.value
        /\ (req_text \in {<<"S", "H">>, <<"s", "h">>} => ret.value = 5)

PhonemeLookupWitness ==
    /\ op = "phoneme_to_viseme"
    /\ req_text = <<" ", "S", "H">>
    /\ ret.value = 5

\* ---------------------------------------------------------------- C8
\* C8: after any sequence of operations VISEME_MAP and viseme_count have
\* their initial values.
CatalogImmutable ==
    /\ VISEME_MAP = VisemeMapLiteral
    /\ viseme_count = VisemeCountLiteral

CatalogImmutableWitness ==
    /\ op = "phoneme_to_viseme"
    /\ strip(lower(req_text)) \notin DOMAIN VisemeMapLiteral
    /\ VISEME_MAP = VisemeMapLiteral

\* ---------------------------------------------------------------- C9
\* C9: for a text with at least one word there is one entry per
\* non-whitespace character of the lower-cased text, in order, and the k-th
\* entry's viseme_id is the character table's value of the k-th such
\* character, 0 when it is no key ("hi" gives 7, 11).
EntryPerCharacter ==
    (IsGenerate /\ WordCountOf(req_text) >= 1) =>
        LET chars == NonSpaceChars(lower(req_text))
        IN  /\ ret.outcome = "returned"
            /\ Len(ret.value) = Len(chars)
            /\ \A k \in 1..Len(chars) :
                   ret.value[k].viseme_id =
                       IF chars[k] \in DOMAIN letter_to_viseme
                       THEN letter_to_viseme[chars[k]]
                       ELSE 0
            /\ (req_text = <<"h", "i">> =>
                    [k \in 1..2 |-> ret.value[k].viseme_id] = <<7, 11>>)

EntryPerCharacterWitness ==
    /\ IsGenerate
    /\ req_text = <<"H", "!", " ", "i">>
    /\ [k \in 1..3 |-> ret.value[k].viseme_id] = <<7, 0, 11>>

\* ---------------------------------------------------------------- C10
\* C10: with W >= 1 words and audio_duration D >= 0, every entry of a word
\* of L characters has duration (D / W) / L, the durations of a word's
\* entries sum to D / W, and the first entry of the j-th word (0-based)
\* has time_offset j * (D / W).
WordUniformAllocation ==
    (IsGenerate /\ NonNegative(req_duration) /\ WordCountOf(req_text) >= 1) =>
        LET per_word == RatDivInt(req_duration, WordCountOf(req_text))
        IN  /\ ret.outcome = "returned"
            /\ Len(ret.value) = Len(NonSpaceChars(req_text))
            /\ \A p \in 1..Len(req_text) :
                   ~IsSpace(req_text[p]) =>
                       LET e == ret.value[EntryIndexAt(req_text, p)]
                           word == WordPositions(req_text, p)
                       IN  /\ e.duration = RatDivInt(per_word, Cardinality(word))
                           /\ RatMulInt(e.duration, Cardinality(word)) = per_word
                           /\ IsWordStart(req_text, p) =>
                                  e.time_offset =
                                      RatMulInt(per_word,
                                                WordIndexAt(req_text, p) - 1)
            /\ (req_text = <<"a", " ", "b">> /\ req_duration = Norm(1, 1) =>
                    /\ ret.value[1].time_offset = Zero
                    /\ ret.value[2].time_offset = Norm(1, 2)
                    /\ ret.value[1].duration = Norm(1, 2)
                    /\ ret.value[2].duration = Norm(1, 2))

WordUniformWitness ==
    /\ IsGenerate
    /\ req_text = <<"a", "b", " ", "h">>
    /\ req_duration = Norm(1, 1)
    /\ ret.value[1].duration = Norm(1, 4)
    /\ ret.value[3].duration = Norm(1, 2)
    /\ ret.value[3].time_offset = Norm(1, 2)

====
